---- MODULE Spec2Model ----
(***************************************************************************)
(* Link2Gether: the watch-party page (App), its achievement hook           *)
(* (useAchievements) and the validation helpers, as a state machine.       *)
(*                                                                         *)
(* React is modelled at the level the code relies on:                      *)
(*  - the state variables hold the values of the last committed render;    *)
(*    every handler, timer callback and effect reads them as its closure;  *)
(*  - pend holds the state updates queued since that render;               *)
(*  - a commit applies the queued updates, then runs the cleanups of the   *)
(*    effects whose dependencies changed (they still see the previous      *)
(*    render), then the bodies of those effects (they see the new one);    *)
(*  - click/keyboard handlers are rendered synchronously (handler and      *)
(*    commit are one step); timer callbacks, window messages and updates   *)
(*    queued by effects are rendered by a later Render step.               *)
(***************************************************************************)
EXTENDS Integers, Sequences, FiniteSets, TLC

(* ---------------------------------------------------------------- bounds *)
MaxQueue == 2
MaxClockSteps == 2
MaxMessages == 1
MaxDiscord == 1
MaxLoads == 2

(* ------------------------------------------------------ program constants *)
TICK_MS == 1000
(* A volume is counted in hundredths, the percent the player is sent       *)
(* (Math.round(volume * 100)) and the step of the slider: 100 is 1.        *)
VolumeSteps == 100
MAX_MESSAGE_LENGTH == 500
VIDEO_ID_LENGTH == 11

Null == 0

ALLOWED_ORIGINS == <<"https://www.youtube.com", "https://youtube.com">>

URL_ERROR == "Please enter a valid YouTube URL."

ACHIEVEMENT_DEFINITIONS ==
  << [id |-> 1,  type |-> "discord_connection", target |-> 1],
     [id |-> 2,  type |-> "videos_added",       target |-> 10],
     [id |-> 3,  type |-> "messages_sent",      target |-> 50],
     [id |-> 4,  type |-> "watch_time",         target |-> 3600],
     [id |-> 5,  type |-> "max_queue_size",     target |-> 5],
     [id |-> 6,  type |-> "watch_time",         target |-> 36000],
     [id |-> 7,  type |-> "watch_time",         target |-> 180000],
     [id |-> 8,  type |-> "watch_time",         target |-> 540000],
     [id |-> 9,  type |-> "watch_time",         target |-> 1800000],
     [id |-> 10, type |-> "watch_time",         target |-> 3600000] >>

InitialStats ==
  [discord_connections |-> 0, videos_added |-> 0, messages_sent |-> 0,
   watch_time |-> 0, max_queue_size |-> 0, sessions_played |-> 0]

(* ------------------------------------------------------------- characters *)
(* Strings that the code takes apart (locators, the session marker) are    *)
(* sequences of one-character strings.                                     *)
Digits == <<"0", "1", "2", "3", "4", "5", "6", "7", "8", "9">>

DigitSet == {Digits[i] : i \in 1..10}

IdChars ==
  DigitSet \cup
  {"a","b","c","d","e","f","g","h","i","j","k","l","m","n","o","p","q","r","s",
   "t","u","v","w","x","y","z","A","B","C","D","E","F","G","H","I","J","K","L",
   "M","N","O","P","Q","R","S","T","U","V","W","X","Y","Z","_","-"}

Whitespace == {" "}

UrlA == <<"h","t","t","p","s",":","/","/","y","o","u","t","u",".","b","e","/",
          "d","Q","w","4","w","9","W","g","X","c","Q">>

UrlB == <<"/","w","a","t","c","h","?","v","=","a","b","c","d","e","f","g","h",
          "i","j","k">>

UrlBad == <<"y","o","u","t","u",".","b","e","/","s","h","o","r","t">>

NoText == <<>>

UrlInputs == {UrlA, <<" ">> \o UrlB, UrlBad, NoText}

(* --------------------------------------------------------- validation.js *)
RECURSIVE TrimStart(_)
TrimStart(s) ==
  IF s # <<>> /\ Head(s) \in Whitespace THEN TrimStart(Tail(s)) ELSE s

RECURSIVE TrimEnd(_)
TrimEnd(s) ==
  IF s # <<>> /\ s[Len(s)] \in Whitespace
  THEN TrimEnd(SubSeq(s, 1, Len(s) - 1)) ELSE s

sanitizeString(input) ==
  LET t == TrimEnd(TrimStart(input))
  IN  SubSeq(t, 1, IF Len(t) < MAX_MESSAGE_LENGTH THEN Len(t) ELSE MAX_MESSAGE_LENGTH)

(* YOUTUBE_URL_PATTERN /(?:v=|\/)([0-9A-Za-z_-]{11}).*/ : the leftmost     *)
(* position where "v=" or "/" is followed by eleven id characters.        *)
IdRunAt(url, p) ==
  /\ p + VIDEO_ID_LENGTH - 1 <= Len(url)
  /\ \A k \in p..(p + VIDEO_ID_LENGTH - 1) : url[k] \in IdChars

MatchAt(url, i) ==
  IF url[i] = "/" /\ IdRunAt(url, i + 1) THEN i + 1
  ELSE IF url[i] = "v" /\ i + 1 <= Len(url) /\ url[i + 1] = "=" /\ IdRunAt(url, i + 2)
       THEN i + 2
       ELSE 0

(* null is the empty sequence: an id always has eleven characters. *)
getYoutubeVideoId(url) ==
  LET hits == {i \in 1..Len(url) : MatchAt(url, i) # 0}
  IN  IF hits = {} THEN <<>>
      ELSE LET i == CHOOSE j \in hits : \A k \in hits : j <= k
           IN  SubSeq(url, MatchAt(url, i), MatchAt(url, i) + VIDEO_ID_LENGTH - 1)

isValidYoutubeUrl(url) == getYoutubeVideoId(url) # <<>>

(* A faulty variant: every origin is accepted. *)
isValidYoutubeOriginAny(origin) == TRUE

isValidYoutubeOrigin(origin) ==
  \E i \in 1..Len(ALLOWED_ORIGINS) : ALLOWED_ORIGINS[i] = origin

(* ------------------------------------------------- JSON and localStorage *)
(* A stored text is <<"json", type, value>> for the JSON text of a value   *)
(* or <<"raw">> for a text JSON.parse rejects; a key holds <<>> when       *)
(* absent and <<text>> otherwise.                                          *)
(*                                                                         *)
(* storeMode is what the browser lets the page do with localStorage: "ok", *)
(* "full" (setItem throws, the quota is exceeded; getItem and removeItem   *)
(* work) or "unavailable" (every access throws).                           *)
VARIABLE storeMode

(* player is the last playVideo, pauseVideo or stopVideo command posted to *)
(* the iframe of the page, NoCommand before the first one.                 *)
VARIABLE player

NoCommand == "none"

StoreModes == {"ok", "full", "unavailable"}

STATS_KEY == "achievement_stats"
UNLOCKED_KEY == "achievement_unlocked"
WATCH_SESSION_KEY == "watch_session_start"
VOLUME_KEY == "volume"

StorageKeys == {STATS_KEY, UNLOCKED_KEY, WATCH_SESSION_KEY, VOLUME_KEY}

NoItem == <<>>

JsonStringify(type, value) == <<"json", type, value>>

RawText == <<"raw">>

NullValue == <<"null", Null>>

Typed(type, value) == <<type, value>>

TypeOf(tv) == tv[1]

ValueOf(tv) == tv[2]

(* A faulty variant: null, not the fallback, when JSON.parse throws. *)
safeJsonParseNull(text, fallback) ==
  IF text[1] = "json" THEN Typed(text[2], text[3]) ELSE NullValue

(* safeJsonParse: the parsed value, the fallback when JSON.parse throws. *)
safeJsonParse(text, fallback) ==
  IF text[1] = "json" THEN Typed(text[2], text[3]) ELSE fallback

(* The validators the load effect passes to safeLocalStorageGet. *)
StatsValidator(data) ==
  TypeOf(data) = "object" /\ ValueOf(data).watch_time \in Int

UnlockedValidator(data) == TypeOf(data) = "array"

WatchSessionValidator(data) == TypeOf(data) \in {"string", "number"}

(* The validator of the volume load effect: a number from 0 to 1. *)
VolumeValidator(data) ==
  TypeOf(data) = "number" /\ ValueOf(data) >= 0 /\ ValueOf(data) <= VolumeSteps

Validate(validator, data) ==
  CASE validator = "stats" -> StatsValidator(data)
    [] validator = "unlocked" -> UnlockedValidator(data)
    [] validator = "watchSession" -> WatchSessionValidator(data)
    [] validator = "volume" -> VolumeValidator(data)
    [] OTHER -> TRUE

(* A faulty variant: a falsy parsed value (0, "", null, false) is taken    *)
(* for a missing one.                                                      *)
safeLocalStorageGetFalsy(store, key, defaultValue, validator) ==
  LET item == store[key]
  IN  IF storeMode = "unavailable" \/ item = NoItem THEN defaultValue
      ELSE LET parsed == safeJsonParse(item[1], defaultValue)
           IN  IF \/ TypeOf(parsed) = "null"
                  \/ (TypeOf(parsed) = "number" /\ ValueOf(parsed) = 0)
                  \/ (TypeOf(parsed) = "string" /\ ValueOf(parsed) = <<>>)
                  \/ (TypeOf(parsed) = "boolean" /\ ValueOf(parsed) = FALSE)
                  \/ ~Validate(validator, parsed)
               THEN defaultValue ELSE parsed

(* safeLocalStorageGet: the default when getItem throws, when the key is    *)
(* absent or when the validator rejects.                                   *)
safeLocalStorageGet(store, key, defaultValue, validator) ==
  LET item == store[key]
  IN  IF storeMode = "unavailable" \/ item = NoItem THEN defaultValue
      ELSE LET parsed == safeJsonParse(item[1], defaultValue)
           IN  IF ~Validate(validator, parsed) THEN defaultValue ELSE parsed

(* A faulty variant: the write goes through whatever the store says. *)
safeLocalStorageSetAlways(store, key, type, value) ==
  [store EXCEPT ![key] = <<JsonStringify(type, value)>>]

(* safeLocalStorageSet: a setItem that throws is caught and writes nothing. *)
safeLocalStorageSet(store, key, type, value) ==
  IF storeMode = "ok"
  THEN [store EXCEPT ![key] = <<JsonStringify(type, value)>>]
  ELSE store

(* localStorage.removeItem inside the try of endWatchSession. *)
removeItem(store, key) ==
  IF storeMode = "unavailable" THEN store ELSE [store EXCEPT ![key] = NoItem]

(* Number.prototype.toString and parseInt(text, 10) on non-negative integers. *)
RECURSIVE NumberToString(_)
NumberToString(n) ==
  IF n < 10 THEN <<Digits[n + 1]>>
  ELSE Append(NumberToString(n \div 10), Digits[(n % 10) + 1])

DigitValue(c) == CHOOSE d \in 0..9 : Digits[d + 1] = c

RECURSIVE ParseDigits(_, _)
ParseDigits(s, acc) ==
  IF s # <<>> /\ Head(s) \in DigitSet
  THEN ParseDigits(Tail(s), acc * 10 + DigitValue(Head(s)))
  ELSE acc

(* NaN (no leading digit) is falsy like null and is modelled as Null. *)
ParseInt(tv) ==
  IF TypeOf(tv) = "number" THEN ValueOf(tv)
  ELSE LET s == TrimStart(ValueOf(tv))
       IN  IF s # <<>> /\ Head(s) \in DigitSet THEN ParseDigits(s, 0) ELSE Null

(* parseFloat on a text: leading white space, a sign, digits and a         *)
(* fraction; what follows is ignored, and a text with no digit is NaN. The *)
(* result counts volume steps and keeps two digits of the fraction.        *)
RECURSIVE LeadingDigits(_)
LeadingDigits(s) ==
  IF s # <<>> /\ Head(s) \in DigitSet
  THEN <<Head(s)>> \o LeadingDigits(Tail(s)) ELSE <<>>

NaN == [nan |-> TRUE, v |-> 0]

parseFloat(text) ==
  LET t    == TrimStart(text)
      neg  == t # <<>> /\ Head(t) = "-"
      u    == IF t # <<>> /\ Head(t) \in {"-", "+"} THEN Tail(t) ELSE t
      ip   == LeadingDigits(u)
      rest == SubSeq(u, Len(ip) + 1, Len(u))
      fp   == IF rest # <<>> /\ Head(rest) = "." THEN LeadingDigits(Tail(rest)) ELSE <<>>
      two  == SubSeq(fp \o <<"0", "0">>, 1, 2)
      mag  == ParseDigits(ip, 0) * VolumeSteps + ParseDigits(two, 0)
  IN  IF ip = <<>> /\ fp = <<>> THEN NaN
      ELSE [nan |-> FALSE, v |-> IF neg THEN 0 - mag ELSE mag]

MathMin(a, b) == IF a < b THEN a ELSE b

MathMax(a, b) == IF a > b THEN a ELSE b

(* A faulty variant: the parsed number is returned as it is. *)
validateNumberUnclamped(value, min, max) ==
  LET num == parseFloat(value)
  IN  IF num.nan THEN min ELSE num.v

validateNumber(value, min, max) ==
  LET num == parseFloat(value)
  IN  IF num.nan THEN min ELSE MathMax(min, MathMin(max, num.v))

(* ------------------------------------------------------------------ state *)
VARIABLES
  mounted,                \* the page component is mounted
  now,                    \* Date.now(), in ms
  storage,                \* localStorage: key -> NoItem or <<text>>
  stats,                  \* useAchievements: stats
  unlockedAchievements,   \* useAchievements: the Set, in insertion order
  watchSessionStart,      \* useAchievements: epoch ms or Null
  youtubeQueue,           \* App: queue of locators
  currentIndex,           \* App: -1 or an offset into the queue
  isYoutubePlaying,       \* App
  youtubeUrl,             \* App: the current locator, NoText when none
  youtubeHistory,         \* App: locators of the history entries, in order
  volume,                 \* App: the volume, in slider steps
  urlError,               \* App: the validation message, "" when none
  watchSessionStartTimeRef, \* App: the ref of the watch-session effect
  interval,               \* the setInterval of the tick effect
  pend,                   \* state updates queued since the last render
  loads,                  \* how many times the page was loaded
  lastOp,                 \* the last event that was handled
  session                 \* bookkeeping of the current playback period

vars ==
  <<mounted, now, storage, stats, unlockedAchievements, watchSessionStart,
    youtubeQueue, currentIndex, isYoutubePlaying, youtubeUrl, youtubeHistory,
    urlError, watchSessionStartTimeRef, interval, pend, loads, lastOp,
    session, storeMode, volume, player>>

NoInterval == [active |-> FALSE, due |-> 0]

(* A queued update of a plain state variable is its new value; stats also   *)
(* takes the functional update of the tick (prevStats => ...).             *)
NoPending ==
  [stats |-> <<>>, unlocked |-> <<>>, wss |-> <<>>, queue |-> <<>>,
   index |-> <<>>, playing |-> <<>>, url |-> <<>>, history |-> <<>>,
   urlError |-> <<>>, volume |-> <<>>]

SetUpdate(v) == [fn |-> "set", v |-> v]

TickUpdate == [fn |-> "tick", v |-> InitialStats]

Quiescent == pend = NoPending

(* What a callback can change: the store, the update queue, the ref; start *)
(* notes what the last call of startWatchSession did.                      *)
Env(store, queue, ref) ==
  [ls |-> store, p |-> queue, ref |-> ref, start |-> "none", out |-> <<>>]

HandlerEnv == Env(storage, NoPending, watchSessionStartTimeRef)

(* ------------------------------------------------- achievementManager.js *)
(* A faulty variant: the stats are set in memory and not written. *)
saveStatsUnwritten(e, newStats) ==
  [e EXCEPT !.p.stats = Append(@, SetUpdate(newStats))]

saveStats(e, newStats) ==
  [e EXCEPT !.ls = safeLocalStorageSet(e.ls, STATS_KEY, "object", newStats),
            !.p.stats = Append(@, SetUpdate(newStats))]

saveUnlockedAchievements(e, newUnlocked) ==
  [e EXCEPT !.ls = safeLocalStorageSet(e.ls, UNLOCKED_KEY, "array", newUnlocked),
            !.p.unlocked = <<newUnlocked>>]

(* A faulty variant: videos_added achievements read watch_time. *)
StatOfTypeMixed(type, s) ==
  CASE type = "discord_connection" -> s.discord_connections
    [] type = "videos_added"       -> s.watch_time
    [] type = "messages_sent"      -> s.messages_sent
    [] type = "watch_time"         -> s.watch_time
    [] type = "max_queue_size"     -> s.max_queue_size

StatOfType(type, s) ==
  CASE type = "discord_connection" -> s.discord_connections
    [] type = "videos_added"       -> s.videos_added
    [] type = "messages_sent"      -> s.messages_sent
    [] type = "watch_time"         -> s.watch_time
    [] type = "max_queue_size"     -> s.max_queue_size

(* A faulty variant: the comparison is turned around. *)
shouldUnlockBelow(achievement, currentStats) ==
  StatOfType(achievement.type, currentStats) < achievement.target

(* A faulty variant: the counter must exceed the target. *)
shouldUnlockAbove(achievement, currentStats) ==
  StatOfType(achievement.type, currentStats) > achievement.target

shouldUnlock(achievement, currentStats) ==
  StatOfType(achievement.type, currentStats) >= achievement.target

Has(seq, x) == \E i \in 1..Len(seq) : seq[i] = x

(* A faulty variant: an id is added without asking whether it is there. *)
RECURSIVE UnlockFromAgain(_, _, _)
UnlockFromAgain(i, unlocked, currentStats) ==
  IF i > Len(ACHIEVEMENT_DEFINITIONS) THEN unlocked
  ELSE LET a == ACHIEVEMENT_DEFINITIONS[i]
       IN  UnlockFromAgain(i + 1,
                           IF shouldUnlock(a, currentStats)
                           THEN Append(unlocked, a.id) ELSE unlocked,
                           currentStats)

RECURSIVE UnlockFrom(_, _, _)
UnlockFrom(i, unlocked, currentStats) ==
  IF i > Len(ACHIEVEMENT_DEFINITIONS) THEN unlocked
  ELSE LET a == ACHIEVEMENT_DEFINITIONS[i]
       IN  UnlockFrom(i + 1,
                      IF ~Has(unlocked, a.id) /\ shouldUnlock(a, currentStats)
                      THEN Append(unlocked, a.id) ELSE unlocked,
                      currentStats)

(* A faulty variant: the new set starts empty, not from the unlocked set. *)
checkAchievementsFresh(e, unlocked, currentStats) ==
  LET newUnlocked == UnlockFrom(1, <<>>, currentStats)
  IN  IF newUnlocked # unlocked THEN saveUnlockedAchievements(e, newUnlocked) ELSE e

(* checkAchievements, closed over the unlocked set of its render. *)
checkAchievements(e, unlocked, currentStats) ==
  LET newUnlocked == UnlockFrom(1, unlocked, currentStats)
  IN  IF newUnlocked # unlocked THEN saveUnlockedAchievements(e, newUnlocked) ELSE e

(* The track* callbacks, closed over the stats of their render. *)
trackDiscordConnection(e, s) ==
  saveStats(e, [s EXCEPT !.discord_connections = @ + 1])

trackVideoAdded(e, s) ==
  saveStats(e, [s EXCEPT !.videos_added = @ + 1])

trackMessageSent(e, s) ==
  saveStats(e, [s EXCEPT !.messages_sent = @ + 1])

trackQueueSize(e, s, currentQueueSize) ==
  IF currentQueueSize > s.max_queue_size
  THEN saveStats(e, [s EXCEPT !.max_queue_size = currentQueueSize])
  ELSE e

(* startWatchSession, closed over the watchSessionStart of its render. *)
(* A faulty variant: the start and the marker are written even when a      *)
(* session is open.                                                        *)
startWatchSessionUnguarded(e, wss) ==
  [e EXCEPT !.p.wss = <<now>>,
            !.ls = safeLocalStorageSet(e.ls, WATCH_SESSION_KEY, "string",
                                       NumberToString(now))]

startWatchSession(e, wss) ==
  IF wss = Null
  THEN [e EXCEPT !.p.wss = <<now>>,
                 !.ls = safeLocalStorageSet(e.ls, WATCH_SESSION_KEY, "string",
                                            NumberToString(now))]
  ELSE e

sessionDuration(wss) == (now - wss) \div TICK_MS

(* A faulty variant: a session of zero duration is closed and its marker   *)
(* is left in the store.                                                   *)
endWatchSessionKeepsMarker(e, wss, s) ==
  IF wss # Null
  THEN IF sessionDuration(wss) > 0
       THEN [saveStats(e, [s EXCEPT !.sessions_played = @ + 1])
               EXCEPT !.p.wss = <<Null>>,
                      !.ls = removeItem(@, WATCH_SESSION_KEY)]
       ELSE [e EXCEPT !.p.wss = <<Null>>]
  ELSE e

(* endWatchSession, closed over watchSessionStart and stats of its render. *)
endWatchSession(e, wss, s) ==
  IF wss # Null
  THEN LET e1 == IF sessionDuration(wss) > 0
                 THEN saveStats(e, [s EXCEPT !.sessions_played = @ + 1])
                 ELSE e
       IN  [e1 EXCEPT !.p.wss = <<Null>>,
                      !.ls = removeItem(e1.ls, WATCH_SESSION_KEY)]
  ELSE e

(* The interval callback's updater: prevStats => watch_time + 1, and the   *)
(* write of the result to the store.                                       *)
TickStats(prevStats) == [prevStats EXCEPT !.watch_time = @ + 1]

(* --------------------------------------------------------- App: effects *)
(* A faulty variant: the selected entry is not made the current locator. *)
QueueEffectNoLocator(e, index, queue) ==
  IF index >= 0 /\ index < Len(queue)
  THEN [e EXCEPT !.p.playing = <<TRUE>>]
  ELSE e

(* A faulty variant: the selected entry is made current and playback is    *)
(* left as it was.                                                         *)
QueueEffectNoPlay(e, index, queue) ==
  IF index >= 0 /\ index < Len(queue)
  THEN [e EXCEPT !.p.url = <<queue[index + 1]>>]
  ELSE IF Len(queue) = 0
       THEN [e EXCEPT !.p.url = <<NoText>>, !.p.playing = <<FALSE>>]
       ELSE e

(* Play video from queue at currentIndex. *)
QueueEffect(e, index, queue) ==
  IF index >= 0 /\ index < Len(queue)
  THEN [e EXCEPT !.p.url = <<queue[index + 1]>>, !.p.playing = <<TRUE>>]
  ELSE IF Len(queue) = 0
       THEN [e EXCEPT !.p.url = <<NoText>>, !.p.playing = <<FALSE>>]
       ELSE e

(* A faulty variant: the locator is appended whether or not the history    *)
(* holds it.                                                               *)
HistoryEffectAlways(e, url, history) ==
  IF url # NoText /\ getYoutubeVideoId(url) # <<>>
  THEN [e EXCEPT !.p.history = <<Append(history, url)>>]
  ELSE e

(* Add youtubeUrl to history when it is a valid, new locator. *)
HistoryEffect(e, url, history) ==
  IF url # NoText /\ getYoutubeVideoId(url) # <<>> /\ ~Has(history, url)
  THEN [e EXCEPT !.p.history = <<Append(history, url)>>]
  ELSE e

(* The cleanup of the watch-session effect, closed over the endWatchSession *)
(* of the render that ran the effect.                                      *)
SessionCleanup(e, wss, s) ==
  IF e.ref # Null
  THEN [endWatchSession(e, wss, s) EXCEPT !.ref = Null]
  ELSE e

(* The body of the watch-session effect. *)
StartOutcome(before, after, wss) ==
  IF wss = Null THEN "opened"
  ELSE IF after.p.wss = before.p.wss /\ after.ls = before.ls THEN "noop"
       ELSE "overwrote"

SessionEffect(e, playing, url, wss, s) ==
  IF playing /\ url # NoText /\ e.ref = Null
  THEN LET e1 == startWatchSession(e, wss)
       IN  [e1 EXCEPT !.ref = now, !.start = StartOutcome(e, e1, wss)]
  ELSE IF ~playing /\ e.ref # Null
       THEN [endWatchSession(e, wss, s) EXCEPT !.ref = Null]
       ELSE e

(* A faulty variant: the cleanup leaves the interval running. *)
TickEffectNoCleanup(old, wss) ==
  IF wss # Null THEN [active |-> TRUE, due |-> now + TICK_MS] ELSE old

(* The tick effect: its cleanup clears the interval, its body sets one. *)
TickEffect(old, wss) ==
  IF wss # Null THEN [active |-> TRUE, due |-> now + TICK_MS] ELSE NoInterval

(* The commands posted to the iframe's window. *)
Cmd(func, args) == [func |-> func, args |-> args]

(* Math.round of the quotient n / d, for n >= 0 and d > 0. *)
MathRound(n, d) == (2 * n + d) \div (2 * d)

(* The iframe is in the output of a render whose locator has a video id. *)
IframeFor(url) == url # NoText /\ getYoutubeVideoId(url) # <<>>

(* A faulty variant: the volume is sent as the fraction the state holds,   *)
(* not as a percentage.                                                    *)
PlayerControlEffectFraction(e, url, playing, vol) ==
  IF ~IframeFor(url) THEN e
  ELSE [e EXCEPT !.out = @ \o <<Cmd("setVolume", <<vol \div VolumeSteps>>),
                                Cmd(IF playing THEN "playVideo" ELSE "pauseVideo", <<>>)>>]

(* YouTube Player Control and Volume Sync. *)
PlayerControlEffect(e, url, playing, vol) ==
  IF ~IframeFor(url) THEN e
  ELSE LET volumePercent == MathRound(vol * 100, VolumeSteps)
       IN  [e EXCEPT !.out = @ \o <<Cmd("setVolume", <<volumePercent>>),
                                    Cmd(IF playing THEN "playVideo" ELSE "pauseVideo", <<>>)>>]

RECURSIVE LastPlayback(_, _)
LastPlayback(out, before) ==
  IF out = <<>> THEN before
  ELSE IF out[Len(out)].func \in {"playVideo", "pauseVideo", "stopVideo"}
       THEN out[Len(out)].func
       ELSE LastPlayback(SubSeq(out, 1, Len(out) - 1), before)

(* ------------------------------------------------------ React: one commit *)
Latest(queued, current) ==
  IF queued = <<>> THEN current ELSE queued[Len(queued)]

(* The stats update queue, applied in order; the tick's updater writes the *)
(* store when it runs.                                                     *)
RECURSIVE FoldStats(_, _, _)
FoldStats(s, ups, store) ==
  IF ups = <<>> THEN [s |-> s, ls |-> store]
  ELSE LET u == Head(ups)
       IN  IF u.fn = "set" THEN FoldStats(u.v, Tail(ups), store)
           ELSE FoldStats(TickStats(s), Tail(ups),
                          safeLocalStorageSet(store, STATS_KEY, "object", TickStats(s)))

(* The values of a committed render, as closures read them. *)
Here ==
  [stats |-> stats, unlocked |-> unlockedAchievements, wss |-> watchSessionStart,
   queue |-> youtubeQueue, index |-> currentIndex, playing |-> isYoutubePlaying,
   url |-> youtubeUrl, history |-> youtubeHistory, urlError |-> urlError,
   volume |-> volume, interval |-> interval]

(* The render that follows the committed render c and applies the queue    *)
(* e.p, and the effects it runs. The result holds the committed state and  *)
(* what the effects left behind.                                           *)
CommitFrom(c, e) ==
  LET f        == FoldStats(c.stats, e.p.stats, e.ls)
      nStats   == f.s
      nUnl     == Latest(e.p.unlocked, c.unlocked)
      nWss     == Latest(e.p.wss, c.wss)
      nQueue   == Latest(e.p.queue, c.queue)
      nIndex   == Latest(e.p.index, c.index)
      nPlaying == Latest(e.p.playing, c.playing)
      nUrl     == Latest(e.p.url, c.url)
      nHistory == Latest(e.p.history, c.history)
      nError   == Latest(e.p.urlError, c.urlError)
      nVolume  == Latest(e.p.volume, c.volume)
      \* objects change identity with every update, primitives by value
      statsCh  == e.p.stats # <<>>
      unlCh    == e.p.unlocked # <<>>
      queueCh  == e.p.queue # <<>>
      wssCh    == nWss # c.wss
      indexCh  == nIndex # c.index
      urlCh    == nUrl # c.url
      sessCh   == nPlaying # c.playing \/ urlCh \/ wssCh \/ statsCh
      ctlCh    == urlCh \/ nPlaying # c.playing \/ nVolume # c.volume
      e0 == [Env(f.ls, NoPending, e.ref) EXCEPT !.out = e.out]
      \* cleanups, with the closures of the previous render
      e1 == IF sessCh THEN SessionCleanup(e0, c.wss, c.stats) ELSE e0
      \* bodies, in hook order, with the closures of this render
      e2 == IF statsCh \/ unlCh THEN checkAchievements(e1, nUnl, nStats) ELSE e1
      e3 == IF indexCh \/ queueCh THEN QueueEffect(e2, nIndex, nQueue) ELSE e2
      e4 == IF urlCh THEN HistoryEffect(e3, nUrl, nHistory) ELSE e3
      e5 == IF ctlCh THEN PlayerControlEffect(e4, nUrl, nPlaying, nVolume) ELSE e4
      e6 == IF sessCh THEN SessionEffect(e5, nPlaying, nUrl, nWss, nStats) ELSE e5
  IN  [stats |-> nStats, unlocked |-> nUnl, wss |-> nWss, queue |-> nQueue,
       index |-> nIndex, playing |-> nPlaying, url |-> nUrl,
       history |-> nHistory, urlError |-> nError, volume |-> nVolume,
       interval |-> IF wssCh THEN TickEffect(c.interval, nWss) ELSE c.interval,
       ls |-> e6.ls, p |-> e6.p, ref |-> e6.ref, start |-> e6.start,
       out |-> e6.out]

Commit(e) == CommitFrom(Here, e)

(* The renders that follow until no update is queued. *)
RECURSIVE Settle(_, _)
Settle(c, e) ==
  LET r == CommitFrom(c, e)
  IN  IF r.p = NoPending THEN r ELSE Settle(r, Env(r.ls, r.p, r.ref))

(* Bookkeeping of the playback period the watch-session effect believes in: *)
(* it opens when the ref is set from empty and closes when the ref is      *)
(* cleared. It holds the watch_time the period should have reached (the    *)
(* value at its start plus one per tick), the sessions_played and the time *)
(* at its start, and is dropped by the first event after the period has    *)
(* closed and its updates were rendered.                                   *)
NoSession == [started |-> FALSE, wt |-> 0, sp0 |-> 0, t0 |-> 0]

SessionClosed == session.started /\ watchSessionStartTimeRef = Null

Forget == IF SessionClosed /\ pend = NoPending THEN NoSession ELSE session

SessionAfter(r) ==
  IF watchSessionStartTimeRef = Null /\ r.ref # Null
  THEN [started |-> TRUE, wt |-> r.stats.watch_time,
        sp0 |-> r.stats.sessions_played, t0 |-> now]
  ELSE Forget

Op(name) ==
  [op |-> name, origin |-> "", data |-> "", start |-> "none", threw |-> FALSE,
   sent |-> <<>>]

(* The committed render r becomes the state. *)
Apply(r, op) ==
  /\ stats' = r.stats
  /\ unlockedAchievements' = r.unlocked
  /\ watchSessionStart' = r.wss
  /\ youtubeQueue' = r.queue
  /\ currentIndex' = r.index
  /\ isYoutubePlaying' = r.playing
  /\ youtubeUrl' = r.url
  /\ youtubeHistory' = r.history
  /\ urlError' = r.urlError
  /\ volume' = r.volume
  /\ interval' = r.interval
  /\ storage' = r.ls
  /\ pend' = r.p
  /\ watchSessionStartTimeRef' = r.ref
  /\ session' = SessionAfter(r)
  /\ lastOp' = [op EXCEPT !.start = r.start, !.sent = r.out]
  /\ player' = LastPlayback(r.out, player)
  /\ UNCHANGED <<mounted, now, loads, storeMode>>

(* A scheduled render of the queued updates. *)
Render ==
  /\ mounted
  /\ ~Quiescent
  /\ Apply(Commit(Env(storage, pend, watchSessionStartTimeRef)), Op("render"))

(* ------------------------------------------------------- page life cycle *)
Unmounted ==
  /\ stats' = InitialStats
  /\ unlockedAchievements' = <<>>
  /\ watchSessionStart' = Null
  /\ youtubeQueue' = <<>>
  /\ currentIndex' = -1
  /\ isYoutubePlaying' = FALSE
  /\ youtubeUrl' = NoText
  /\ youtubeHistory' = <<>>
  /\ urlError' = ""
  /\ volume' = VolumeSteps
  /\ interval' = NoInterval
  /\ pend' = NoPending
  /\ watchSessionStartTimeRef' = Null
  /\ player' = NoCommand
  /\ mounted' = FALSE

Truthy(tv) ==
  CASE TypeOf(tv) = "string" -> ValueOf(tv) # <<>>
    [] TypeOf(tv) = "number" -> ValueOf(tv) # 0
    [] OTHER -> FALSE

RECURSIVE Dedup(_, _)
Dedup(seq, acc) ==
  IF seq = <<>> THEN acc
  ELSE Dedup(Tail(seq), IF Has(acc, Head(seq)) THEN acc ELSE Append(acc, Head(seq)))

(* Load saved data from localStorage (the hook's mount effect). *)
LoadEffect(e) ==
  LET savedStats == safeLocalStorageGet(e.ls, STATS_KEY,
                      Typed("object", InitialStats), "stats")
      savedUnlocked == safeLocalStorageGet(e.ls, UNLOCKED_KEY,
                      Typed("array", <<>>), "unlocked")
      savedWatchSession == safeLocalStorageGet(e.ls, WATCH_SESSION_KEY,
                      NullValue, "watchSession")
      e1 == [e EXCEPT !.p.stats = Append(@, SetUpdate(ValueOf(savedStats))),
                      !.p.unlocked = <<Dedup(ValueOf(savedUnlocked), <<>>)>>]
  IN  IF Truthy(savedWatchSession)
      THEN [e1 EXCEPT !.p.wss = <<ParseInt(savedWatchSession)>>]
      ELSE e1

(* The identity effect: with the three query parameters in the address it  *)
(* tracks a Discord connection; it then strips them from the address, so   *)
(* its later runs (one per stats change) find none.                        *)
IdentityEffect(e, withIdentity, s) ==
  IF withIdentity THEN trackDiscordConnection(e, s) ELSE e

(* Load saved volume from localStorage. *)
VolumeLoadEffect(e) ==
  LET savedVolume == safeLocalStorageGet(e.ls, VOLUME_KEY,
                       Typed("number", VolumeSteps), "volume")
  IN  [e EXCEPT !.p.volume = <<ValueOf(savedVolume)>>]

(* The first render (useState initial values) and every effect, in order. *)
MountCommit(withIdentity) ==
  LET e0 == Env(storage, NoPending, Null)
      e1 == LoadEffect(e0)
      e2 == checkAchievements(e1, <<>>, InitialStats)
      e3 == IdentityEffect(e2, withIdentity, InitialStats)
      e3v == VolumeLoadEffect(e3)
      e4 == QueueEffect(e3v, -1, <<>>)
      e5 == HistoryEffect(e4, NoText, <<>>)
      e6 == SessionEffect(e5, FALSE, NoText, Null, InitialStats)
  IN  [stats |-> InitialStats, unlocked |-> <<>>, wss |-> Null, queue |-> <<>>,
       index |-> -1, playing |-> FALSE, url |-> NoText, history |-> <<>>,
       urlError |-> "", volume |-> VolumeSteps,
       interval |-> TickEffect(NoInterval, Null),
       ls |-> e6.ls, p |-> e6.p, ref |-> e6.ref, start |-> e6.start]

Mount(withIdentity) ==
  /\ ~mounted
  /\ loads < MaxLoads
  /\ loads' = loads + 1
  /\ LET r == MountCommit(withIdentity)
     IN  /\ stats' = r.stats
         /\ unlockedAchievements' = r.unlocked
         /\ watchSessionStart' = r.wss
         /\ youtubeQueue' = r.queue
         /\ currentIndex' = r.index
         /\ isYoutubePlaying' = r.playing
         /\ youtubeUrl' = r.url
         /\ youtubeHistory' = r.history
         /\ urlError' = r.urlError
         /\ volume' = r.volume
         /\ interval' = r.interval
         /\ storage' = r.ls
         /\ pend' = r.p
         /\ watchSessionStartTimeRef' = r.ref
  /\ mounted' = TRUE
  /\ session' = NoSession
  /\ player' = NoCommand
  /\ lastOp' = [Op("mount") EXCEPT !.data = IF withIdentity THEN "identity" ELSE ""]
  /\ UNCHANGED <<now, storeMode>>

(* The page is reloaded or closed: no cleanup runs, the store stays. *)
PageUnload ==
  /\ mounted
  /\ Unmounted
  /\ session' = NoSession
  /\ lastOp' = Op("unload")
  /\ UNCHANGED <<now, storage, loads, storeMode>>

(* React unmounts the page: the cleanups of the tick effect and of the     *)
(* watch-session effect run; state updates of an unmounted component are   *)
(* dropped.                                                                *)
Unmount ==
  /\ mounted
  /\ Quiescent
  /\ LET e == SessionCleanup(HandlerEnv, watchSessionStart, stats)
     IN  storage' = e.ls
  /\ Unmounted
  /\ session' = Forget
  /\ lastOp' = Op("unmount")
  /\ UNCHANGED <<now, loads, storeMode>>

(* ------------------------------------------------------ time and the tick *)
(* Time is observed only through an open session, its interval or its     *)
(* marker in the store; with none of them its passing is not a step.       *)
TimeObserved ==
  \/ interval.active
  \/ watchSessionStart # Null
  \/ watchSessionStartTimeRef # Null
  \/ storage[WATCH_SESSION_KEY] # NoItem

AdvanceClock ==
  /\ Quiescent
  /\ TimeObserved
  /\ now < TICK_MS + MaxClockSteps * TICK_MS
  /\ now' = now + TICK_MS
  /\ lastOp' = Op("clock")
  /\ session' = Forget
  /\ UNCHANGED <<mounted, storage, stats, unlockedAchievements, watchSessionStart,
                 youtubeQueue, currentIndex, isYoutubePlaying, youtubeUrl,
                 youtubeHistory, urlError, watchSessionStartTimeRef, interval,
                 pend, loads, storeMode, volume, player>>

(* setStats(prevStats => ...): React runs the updater at once when nothing *)
(* is queued, and during the next render otherwise.                        *)
QueueTick(e, s) ==
  IF e.p = NoPending
  THEN [e EXCEPT !.ls = safeLocalStorageSet(e.ls, STATS_KEY, "object", TickStats(s)),
                 !.p.stats = <<SetUpdate(TickStats(s))>>]
  ELSE [e EXCEPT !.p.stats = Append(@, TickUpdate)]

(* The interval callback, closed over the watchSessionStart of its effect. *)
IntervalCallback(e, wss, s) ==
  IF sessionDuration(wss) > 0 THEN QueueTick(e, s) ELSE e

Tick ==
  /\ mounted
  /\ interval.active
  /\ now >= interval.due
  /\ LET e == IntervalCallback(Env(storage, pend, watchSessionStartTimeRef),
                               watchSessionStart, stats)
     IN  /\ storage' = e.ls
         /\ pend' = e.p
         /\ session' = IF e.p # pend /\ session.started
                       THEN [session EXCEPT !.wt = @ + 1] ELSE session
  /\ interval' = [interval EXCEPT !.due = now + TICK_MS]
  /\ lastOp' = Op("tick")
  /\ UNCHANGED <<mounted, now, stats, unlockedAchievements, watchSessionStart,
                 youtubeQueue, currentIndex, isYoutubePlaying, youtubeUrl,
                 youtubeHistory, urlError, watchSessionStartTimeRef, loads,
                 storeMode, volume, player>>

(* ------------------------------------------------------- App: handlers *)
(* The iframe (youtubeRef.current) is rendered only for a valid locator. *)
IframePresent == youtubeUrl # NoText /\ getYoutubeVideoId(youtubeUrl) # <<>>

(* A faulty variant: a rejected locator is reported and appended all the  *)
(* same.                                                                   *)
addToQueueNoReject(e, url, prev, s) ==
  IF url = NoText THEN e
  ELSE LET sanitizedUrl == sanitizeString(url)
           e1 == [e EXCEPT !.p.urlError =
                    <<IF isValidYoutubeUrl(sanitizedUrl) THEN "" ELSE URL_ERROR>>]
       IN  [e1 EXCEPT !.p.queue = <<Append(prev, sanitizedUrl)>>]

(* A faulty variant: the new entry is put at the head of the queue. *)
addToQueuePrepends(e, url, prev, s) ==
  IF url = NoText THEN e
  ELSE LET sanitizedUrl == sanitizeString(url)
       IN  IF ~isValidYoutubeUrl(sanitizedUrl)
           THEN [e EXCEPT !.p.urlError = <<URL_ERROR>>]
           ELSE LET newQueue == <<sanitizedUrl>> \o prev
                    e1 == [e EXCEPT !.p.urlError = <<"">>]
                    e2 == trackVideoAdded(e1, s)
                    e3 == trackQueueSize(e2, s, Len(newQueue))
                    e4 == IF Len(prev) = 0 /\ Len(newQueue) > 0
                          THEN [e3 EXCEPT !.p.index = <<0>>, !.p.playing = <<TRUE>>]
                          ELSE e3
                IN  [e4 EXCEPT !.p.queue = <<newQueue>>]

(* addToQueue, with the updater of setYoutubeQueue run on prev. *)
addToQueue(e, url, prev, s) ==
  IF url = NoText THEN e
  ELSE LET sanitizedUrl == sanitizeString(url)
       IN  IF ~isValidYoutubeUrl(sanitizedUrl)
           THEN [e EXCEPT !.p.urlError = <<URL_ERROR>>]
           ELSE LET newQueue == Append(prev, sanitizedUrl)
                    e1 == [e EXCEPT !.p.urlError = <<"">>]
                    e2 == trackVideoAdded(e1, s)
                    e3 == trackQueueSize(e2, s, Len(newQueue))
                    e4 == IF Len(prev) = 0 /\ Len(newQueue) > 0
                          THEN [e3 EXCEPT !.p.index = <<0>>, !.p.playing = <<TRUE>>]
                          ELSE e3
                IN  [e4 EXCEPT !.p.queue = <<newQueue>>]

handlePlay(e, youtubeInput) ==
  IF youtubeInput # NoText
  THEN addToQueue(e, youtubeInput, youtubeQueue, stats)
  ELSE IF currentIndex = -1 /\ Len(youtubeQueue) > 0
       THEN [e EXCEPT !.p.index = <<0>>, !.p.playing = <<TRUE>>]
       ELSE IF currentIndex >= 0 /\ currentIndex < Len(youtubeQueue) /\ IframePresent
            THEN [e EXCEPT !.out = Append(@, Cmd("playVideo", <<>>)),
                           !.p.playing = <<TRUE>>]
            ELSE e

handlePause(e) ==
  IF IframePresent
  THEN [e EXCEPT !.out = Append(@, Cmd("pauseVideo", <<>>)), !.p.playing = <<FALSE>>]
  ELSE e

handleStop(e) ==
  IF IframePresent
  THEN [e EXCEPT !.out = Append(@, Cmd("stopVideo", <<>>)), !.p.playing = <<FALSE>>]
  ELSE e

(* A faulty variant: Next at the last index wraps to the first entry. *)
handleNextWraps(e) ==
  IF currentIndex + 1 < Len(youtubeQueue)
  THEN [e EXCEPT !.p.index = <<currentIndex + 1>>, !.p.playing = <<TRUE>>]
  ELSE [e EXCEPT !.p.index = <<0>>, !.p.playing = <<TRUE>>]

handleNext(e) ==
  IF currentIndex + 1 < Len(youtubeQueue)
  THEN [e EXCEPT !.p.index = <<currentIndex + 1>>, !.p.playing = <<TRUE>>]
  ELSE [e EXCEPT !.p.playing = <<FALSE>>]

(* A faulty variant: Previous steps back from any index. *)
handlePreviousUnguarded(e) ==
  [e EXCEPT !.p.index = <<currentIndex - 1>>, !.p.playing = <<TRUE>>]

(* A faulty variant: Previous at the start of the queue stops playback. *)
handlePreviousStops(e) ==
  IF currentIndex > 0
  THEN [e EXCEPT !.p.index = <<currentIndex - 1>>, !.p.playing = <<TRUE>>]
  ELSE [e EXCEPT !.p.playing = <<FALSE>>]

handlePrevious(e) ==
  IF currentIndex > 0
  THEN [e EXCEPT !.p.index = <<currentIndex - 1>>, !.p.playing = <<TRUE>>]
  ELSE e

IndexOf(seq, x) ==
  IF Has(seq, x)
  THEN (CHOOSE i \in 1..Len(seq) : seq[i] = x /\ \A j \in 1..(i - 1) : seq[j] # x) - 1
  ELSE -1

(* A faulty variant: the locator is appended even when the queue has it. *)
playFromHistoryAppends(e, src) ==
  IF src # NoText
  THEN [e EXCEPT !.p.queue = <<Append(youtubeQueue, src)>>,
                 !.p.index = <<Len(youtubeQueue)>>,
                 !.p.playing = <<TRUE>>]
  ELSE e

playFromHistory(e, src) ==
  IF src # NoText
  THEN LET indexInQueue == IndexOf(youtubeQueue, src)
           e1 == IF indexInQueue # -1
                 THEN [e EXCEPT !.p.index = <<indexInQueue>>]
                 ELSE [e EXCEPT !.p.queue = <<Append(youtubeQueue, src)>>,
                                !.p.index = <<Len(youtubeQueue)>>]
       IN  [e1 EXCEPT !.p.playing = <<TRUE>>]
  ELSE e

VolumeTexts ==
  { <<"0", ".", "5">>, <<"1", ".", "5">>, <<"a", "b", "c">>, <<"-", "3">>,
    <<"0">>, <<" ", ".", "2", "5", "x">>, NoText }

(* The texts the slider is moved to in the runs. *)
SliderTexts == { <<"0", ".", "5">>, <<"1", ".", "5">>, <<"a", "b", "c">> }

handleVolumeChange(e, value) ==
  LET newVolume == validateNumber(value, 0, VolumeSteps)
  IN  [e EXCEPT !.p.volume = <<newVolume>>,
                !.ls = safeLocalStorageSet(e.ls, VOLUME_KEY, "number", newVolume)]

(* A click or key press: the handler of the last render runs and React     *)
(* renders its updates before the event ends.                              *)
Discrete(e, op) ==
  /\ mounted
  /\ Quiescent
  /\ Apply(Commit(e), op)

AddToQueue(input) ==
  /\ Len(youtubeQueue) < MaxQueue
  /\ Discrete(addToQueue(HandlerEnv, input, youtubeQueue, stats),
              [Op("enqueue") EXCEPT !.data = IF input = NoText THEN "empty" ELSE "text"])

Play(input) ==
  /\ Len(youtubeQueue) < MaxQueue
  /\ Discrete(handlePlay(HandlerEnv, input),
              [Op("play") EXCEPT !.data = IF input = NoText THEN "empty" ELSE "text"])

Pause == Discrete(handlePause(HandlerEnv), Op("pause"))

Stop == Discrete(handleStop(HandlerEnv), Op("stop"))

NextVideo == Discrete(handleNext(HandlerEnv), Op("next"))

PreviousVideo == Discrete(handlePrevious(HandlerEnv), Op("previous"))

PlayFromHistory(i) ==
  /\ Has(youtubeQueue, youtubeHistory[i]) \/ Len(youtubeQueue) < MaxQueue
  /\ Discrete(playFromHistory(HandlerEnv, youtubeHistory[i]),
              Op("history"))

(* The volume slider (or a script setting its value) reports a change. *)
VolumeChange(value) ==
  Discrete(handleVolumeChange(HandlerEnv, value), Op("volume"))

(* ChatRoom reports a sent message (onMessageSent). *)
MessageSent ==
  /\ stats.messages_sent < MaxMessages
  /\ Discrete(trackMessageSent(HandlerEnv, stats), Op("messageSent"))

(* handleDiscordConnect tracks the connection and leaves for the OAuth page. *)
DiscordConnect ==
  /\ mounted
  /\ Quiescent
  /\ stats.discord_connections < MaxDiscord
  /\ storage' = trackDiscordConnection(HandlerEnv, stats).ls
  /\ Unmounted
  /\ session' = NoSession
  /\ lastOp' = Op("discordConnect")
  /\ UNCHANGED <<now, loads, storeMode>>

(* ------------------------------------------------ player bridge: inbound *)
Origins == {"https://www.youtube.com", "https://youtube.com", "https://evil.example"}

(* event.data: a string (a JSON text or not) or something else. *)
EndedData ==
  [name |-> "ended", string |-> TRUE,
   text |-> JsonStringify("object", [event |-> "onStateChange", info |-> 0])]

PlayingData ==
  [name |-> "playing", string |-> TRUE,
   text |-> JsonStringify("object", [event |-> "onStateChange", info |-> 1])]

GarbageData == [name |-> "garbage", string |-> TRUE, text |-> RawText]

ObjectData ==
  [name |-> "object", string |-> FALSE,
   text |-> JsonStringify("object", [event |-> "onStateChange", info |-> 0])]

OtherEventData ==
  [name |-> "otherEvent", string |-> TRUE,
   text |-> JsonStringify("object", [event |-> "infoDelivery", info |-> 0])]

NumberData ==
  [name |-> "number", string |-> TRUE, text |-> JsonStringify("number", 5)]

NullData ==
  [name |-> "null", string |-> TRUE, text |-> JsonStringify("null", Null)]

Payloads == {EndedData, GarbageData}

(* The payloads that are not an ended event. *)
Malformed ==
  {GarbageData, PlayingData, ObjectData, OtherEventData, NumberData, NullData}

(* A faulty variant: every onStateChange event is taken for the end of the *)
(* video.                                                                  *)
MessageBodyAnyInfo(e, data) ==
  IF data.text[1] # "json" \/ data.text[2] = "null" THEN [threw |-> TRUE, e |-> e]
  ELSE IF data.text[2] # "object" THEN [threw |-> FALSE, e |-> e]
  ELSE IF data.text[3].event = "onStateChange"
       THEN [threw |-> FALSE,
             e |-> IF currentIndex + 1 < Len(youtubeQueue)
                   THEN [e EXCEPT !.p.index = <<currentIndex + 1>>]
                   ELSE [e EXCEPT !.p.playing = <<FALSE>>]]
       ELSE [threw |-> FALSE, e |-> e]

(* The try block of handleMessage: JSON.parse throws on a text that is not *)
(* JSON and the read of data.event throws when the text parses to null; a  *)
(* number or a string has no such property.                                *)
MessageBody(e, data) ==
  IF data.text[1] # "json" THEN [threw |-> TRUE, e |-> e]
  ELSE LET parsed == safeJsonParse(data.text, NullValue)
       IN  IF TypeOf(parsed) = "null" THEN [threw |-> TRUE, e |-> e]
           ELSE IF TypeOf(parsed) # "object" THEN [threw |-> FALSE, e |-> e]
           ELSE IF ValueOf(parsed).event = "onStateChange" /\ ValueOf(parsed).info = 0
                THEN [threw |-> FALSE,
                      e |-> IF currentIndex + 1 < Len(youtubeQueue)
                            THEN [e EXCEPT !.p.index = <<currentIndex + 1>>]
                            ELSE [e EXCEPT !.p.playing = <<FALSE>>]]
                ELSE [threw |-> FALSE, e |-> e]

(* handleMessage: the early return, then the try block with its empty      *)
(* catch. threw tells whether an error leaves the handler.                 *)
handleMessageOutcome(e, origin, data) ==
  IF ~isValidYoutubeOrigin(origin) \/ ~data.string THEN [threw |-> FALSE, e |-> e]
  ELSE LET r == MessageBody(e, data)
       IN  IF r.threw THEN [threw |-> FALSE, e |-> e] ELSE r

handleMessage(e, origin, data) == handleMessageOutcome(e, origin, data).e

(* A window message event: its updates are rendered by a later Render. *)
ReceiveMessage(origin, data) ==
  /\ mounted
  /\ Quiescent
  /\ LET r == handleMessageOutcome(Env(storage, pend, watchSessionStartTimeRef),
                                    origin, data)
     IN  /\ pend' = r.e.p
         /\ lastOp' = [Op("message") EXCEPT !.origin = origin, !.data = data.name,
                                            !.threw = r.threw]
  /\ session' = Forget
  /\ UNCHANGED <<mounted, now, storage, stats, unlockedAchievements,
                 watchSessionStart, youtubeQueue, currentIndex, isYoutubePlaying,
                 youtubeUrl, youtubeHistory, urlError, watchSessionStartTimeRef,
                 interval, loads, storeMode, volume, player>>

(* -------------------------------------------------- chat bridge: inbound *)
(* What ChatRoom hands to onVideoStateChange; a field that is missing is   *)
(* NoText, "", the empty queue or -1, which the handler skips alike. The   *)
(* queues of the chat have MaxQueue entries.                               *)
ChatUpdates ==
  { [videoUrl |-> UrlB, playbackState |-> "", queue |-> <<>>, index |-> -1],
    [videoUrl |-> NoText, playbackState |-> "pause", queue |-> <<UrlB, UrlA>>,
     index |-> 1],
    [videoUrl |-> NoText, playbackState |-> "stop", queue |-> <<UrlB, UrlA>>,
     index |-> 2] }

onVideoStateChange(e, u) ==
  LET e1 == IF Len(u.queue) > 0 THEN [e EXCEPT !.p.queue = <<u.queue>>] ELSE e
      e2 == IF u.index >= 0 /\ u.index # currentIndex
            THEN [e1 EXCEPT !.p.index = <<u.index>>] ELSE e1
      e3 == IF u.videoUrl # NoText /\ u.videoUrl # youtubeUrl
            THEN [e2 EXCEPT !.p.url = <<u.videoUrl>>] ELSE e2
  IN  IF u.playbackState = "play" THEN [e3 EXCEPT !.p.playing = <<TRUE>>]
      ELSE IF u.playbackState \in {"pause", "stop"}
           THEN [e3 EXCEPT !.p.playing = <<FALSE>>]
           ELSE e3

(* A chat update arrives on the socket: its updates are rendered by a      *)
(* later Render.                                                           *)
ChatUpdate(u) ==
  /\ mounted
  /\ Quiescent
  /\ LET e == onVideoStateChange(Env(storage, pend, watchSessionStartTimeRef), u)
     IN  pend' = e.p
  /\ lastOp' = [Op("chat") EXCEPT !.data = u.playbackState]
  /\ session' = Forget
  /\ UNCHANGED <<mounted, now, storage, stats, unlockedAchievements,
                 watchSessionStart, youtubeQueue, currentIndex, isYoutubePlaying,
                 youtubeUrl, youtubeHistory, urlError, watchSessionStartTimeRef,
                 interval, loads, storeMode, volume, player>>

(* ---------------------------------------------------------- specification *)
EmptyStorage == [k \in StorageKeys |-> NoItem]

Init ==
  /\ mounted = FALSE
  /\ now = TICK_MS
  /\ storage = EmptyStorage
  /\ stats = InitialStats
  /\ unlockedAchievements = <<>>
  /\ watchSessionStart = Null
  /\ youtubeQueue = <<>>
  /\ currentIndex = -1
  /\ isYoutubePlaying = FALSE
  /\ youtubeUrl = NoText
  /\ youtubeHistory = <<>>
  /\ urlError = ""
  /\ watchSessionStartTimeRef = Null
  /\ interval = NoInterval
  /\ pend = NoPending
  /\ loads = 0
  /\ lastOp = Op("init")
  /\ session = NoSession
  /\ storeMode = "ok"
  /\ volume = VolumeSteps
  /\ player = NoCommand

Next ==
  \/ \E withIdentity \in BOOLEAN : Mount(withIdentity)
  \/ PageUnload
  \/ Unmount
  \/ Render
  \/ AdvanceClock
  \/ Tick
  \/ \E input \in UrlInputs : AddToQueue(input)
  \/ \E input \in UrlInputs : Play(input)
  \/ Pause
  \/ Stop
  \/ NextVideo
  \/ PreviousVideo
  \/ \E i \in 1..Len(youtubeHistory) : PlayFromHistory(i)
  \/ MessageSent
  \/ DiscordConnect
  \/ \E origin \in Origins, data \in Payloads : ReceiveMessage(origin, data)

Spec == Init /\ [][Next]_vars

(* ------------------------------------------- the evaluator on its inputs *)
(* The hook alone, driven over stat mappings around the targets: every     *)
(* counter is just below its first target or at it.                        *)
StatInputs ==
  { [discord_connections |-> d, videos_added |-> v, messages_sent |-> m,
     watch_time |-> w, max_queue_size |-> q, sessions_played |-> 0] :
       d \in {0, 1}, v \in {9, 10}, m \in {49, 50}, w \in {3599, 3600},
       q \in {4, 5} }

(* A store edited outside the page: the stats validator asks only that     *)
(* watch_time is a number.                                                 *)
TamperedStats == [InitialStats EXCEPT !.watch_time = -5]

TamperedStorage ==
  [EmptyStorage EXCEPT ![STATS_KEY] = <<JsonStringify("object", TamperedStats)>>]

StoreInputs == {EmptyStorage, TamperedStorage}

EvalInit ==
  /\ mounted = FALSE
  /\ now = TICK_MS
  /\ storage \in StoreInputs
  /\ stats = InitialStats
  /\ unlockedAchievements = <<>>
  /\ watchSessionStart = Null
  /\ youtubeQueue = <<>>
  /\ currentIndex = -1
  /\ isYoutubePlaying = FALSE
  /\ youtubeUrl = NoText
  /\ youtubeHistory = <<>>
  /\ urlError = ""
  /\ watchSessionStartTimeRef = Null
  /\ interval = NoInterval
  /\ pend = NoPending
  /\ loads = 0
  /\ lastOp = Op("init")
  /\ session = NoSession
  /\ storeMode = "ok"
  /\ volume = VolumeSteps
  /\ player = NoCommand

(* A caller of the hook saves a new stat mapping (saveStats). *)
StatsChange(newStats) ==
  Discrete(saveStats(HandlerEnv, newStats), Op("saveStats"))

EvalNext ==
  \/ Mount(FALSE)
  \/ PageUnload
  \/ Render
  \/ \E newStats \in StatInputs : StatsChange(newStats)

SpecEval == EvalInit /\ [][EvalNext]_vars

(* ------------------------------------------------- the store that fails *)
(* The page over a store that the browser may refuse for the whole visit   *)
(* (quota reached, storage switched off), and over what the store held.    *)
(* A store edited outside the page: a stats text that is no JSON, a number *)
(* where the unlocked array belongs, a boolean for the session marker and  *)
(* a volume above 1.                                                       *)
CorruptStorage ==
  [k \in StorageKeys |->
     CASE k = STATS_KEY -> <<RawText>>
       [] k = UNLOCKED_KEY -> <<JsonStringify("number", 7)>>
       [] k = WATCH_SESSION_KEY -> <<JsonStringify("boolean", TRUE)>>
       [] k = VOLUME_KEY -> <<JsonStringify("number", 250)>>]

(* A store the page wrote in an earlier visit. *)
SavedStats == [InitialStats EXCEPT !.watch_time = 7, !.videos_added = 3]

SavedStorage ==
  [k \in StorageKeys |->
     CASE k = STATS_KEY -> <<JsonStringify("object", SavedStats)>>
       [] k = UNLOCKED_KEY -> <<JsonStringify("array", <<>>)>>
       [] k = WATCH_SESSION_KEY -> NoItem
       [] k = VOLUME_KEY -> <<JsonStringify("number", 25)>>]

StoreSeeds == {EmptyStorage, CorruptStorage, SavedStorage}

StoreInit ==
  /\ mounted = FALSE
  /\ now = TICK_MS
  /\ storage \in StoreSeeds
  /\ stats = InitialStats
  /\ unlockedAchievements = <<>>
  /\ watchSessionStart = Null
  /\ youtubeQueue = <<>>
  /\ currentIndex = -1
  /\ isYoutubePlaying = FALSE
  /\ youtubeUrl = NoText
  /\ youtubeHistory = <<>>
  /\ urlError = ""
  /\ watchSessionStartTimeRef = Null
  /\ interval = NoInterval
  /\ pend = NoPending
  /\ loads = 0
  /\ lastOp = Op("init")
  /\ session = NoSession
  /\ storeMode \in StoreModes
  /\ volume = VolumeSteps
  /\ player = NoCommand

StoreNext ==
  \/ Mount(FALSE)
  \/ PageUnload
  \/ Render
  \/ \E value \in SliderTexts : VolumeChange(value)
  \/ \E input \in UrlInputs : AddToQueue(input)
  \/ AdvanceClock
  \/ Tick

SpecStore == StoreInit /\ [][StoreNext]_vars

(* ------------------------------------------- the controller and the chat *)
(* The queue controller under the local operations and the updates of the  *)
(* chat, with the clock standing still.                                    *)
ChatNext ==
  \/ Mount(FALSE)
  \/ Render
  \/ \E input \in UrlInputs : AddToQueue(input)
  \/ \E input \in UrlInputs : Play(input)
  \/ Pause
  \/ Stop
  \/ NextVideo
  \/ PreviousVideo
  \/ \E i \in 1..Len(youtubeHistory) : PlayFromHistory(i)
  \/ \E origin \in Origins, data \in Payloads \cup Malformed :
        ReceiveMessage(origin, data)
  \/ \E u \in ChatUpdates : ChatUpdate(u)
  \/ \E value \in SliderTexts : VolumeChange(value)

SpecChat == Init /\ [][ChatNext]_vars

(* ------------------------------------------------------------- properties *)
(* What a load would read from a store. *)
StatsIn(store) ==
  ValueOf(safeLocalStorageGet(store, STATS_KEY, Typed("object", InitialStats),
                              "stats"))

UnlockedIn(store) ==
  Dedup(ValueOf(safeLocalStorageGet(store, UNLOCKED_KEY, Typed("array", <<>>),
                                    "unlocked")), <<>>)

StoredStats == StatsIn(storage)

StatsStored == storage[STATS_KEY] # NoItem

MarkerStored == storage[WATCH_SESSION_KEY] # NoItem

(* C1: once a playback period that saw N ticks is closed (pause, stop, end *)
(* of queue, unmount) and its updates are rendered, watch_time is its      *)
(* value at the start of the period plus N, in memory and in the store.    *)
C1_SessionAccrual ==
  (SessionClosed /\ Quiescent) =>
     /\ mounted => stats.watch_time = session.wt
     /\ StatsStored => StoredStats.watch_time = session.wt

C1_Witness ==
  /\ SessionClosed /\ Quiescent /\ mounted
  /\ session.wt = 2 /\ stats.watch_time = 2
  /\ StatsStored

(* C2: a closed playback period raised sessions_played by one when it      *)
(* lasted at least a second and by nothing when it lasted less, however    *)
(* many ticks it saw.                                                      *)
C2_OneSessionPerPeriod ==
  (SessionClosed /\ Quiescent /\ mounted) =>
     stats.sessions_played =
        session.sp0 + (IF (now - session.t0) \div TICK_MS > 0 THEN 1 ELSE 0)

(* C3: no step lowers watch_time, in memory or in the store. *)
C3_WatchTimeMonotone ==
  [][ /\ (mounted /\ mounted') => stats'.watch_time >= stats.watch_time
      /\ (StatsStored /\ storage'[STATS_KEY] # NoItem) =>
            StatsIn(storage').watch_time >= StatsIn(storage).watch_time ]_vars

(* C4: the interval is set only while the hook holds a session start, and  *)
(* a tick changes the stats only then; closing the session or unmounting   *)
(* clears it.                                                              *)
C4_TimerOnlyWhileOpen ==
  /\ [](interval.active => (mounted /\ watchSessionStart # Null))
  /\ [][(lastOp'.op = "tick" /\ pend'.stats # pend.stats)
          => (mounted /\ watchSessionStart # Null)]_vars

C4_Witness ==
  /\ mounted /\ Quiescent /\ SessionClosed
  /\ session.wt > 0 /\ stats.watch_time > 0
  /\ watchSessionStart = Null /\ ~interval.active

(* C5: with nothing enqueued since the page was loaded (no playback can    *)
(* have started), no tick changes the stats, whatever marker the store     *)
(* held at load.                                                           *)
C5_NoResumeOnLoad ==
  [][(lastOp'.op = "tick" /\ youtubeQueue = <<>>)
       => (pend'.stats = pend.stats /\ storage' = storage)]_vars

(* C6: startWatchSession called while the hook holds a session start       *)
(* changes neither the start nor the marker in the store.                  *)
C6_StartIsNoOpWhenOpen == lastOp.start # "overwrote"

C6_Witness ==
  /\ lastOp.start = "noop"
  /\ watchSessionStart # Null
  /\ MarkerStored

(* C7: a window message from an origin outside ALLOWED_ORIGINS changes     *)
(* nothing of the queue, the index, the playing flag or any queued update, *)
(* whatever its payload.                                                   *)
C7_UntrustedOriginIgnored ==
  [][(lastOp'.op = "message" /\ ~Has(ALLOWED_ORIGINS, lastOp'.origin))
       => UNCHANGED <<youtubeQueue, currentIndex, isYoutubePlaying, youtubeUrl,
                      pend, storage, stats>>]_vars

C7_Witness ==
  /\ lastOp.op = "message"
  /\ ~Has(ALLOWED_ORIGINS, lastOp.origin)
  /\ lastOp.data = "ended"
  /\ currentIndex >= 0 /\ currentIndex + 1 < Len(youtubeQueue)
  /\ isYoutubePlaying

(* C8: currentIndex is -1 or an index of the queue. *)
C8_IndexInRange ==
  mounted =>
     \/ currentIndex = -1
     \/ (0 <= currentIndex /\ currentIndex < Len(youtubeQueue))

C8_Witness ==
  /\ lastOp.op = "previous"
  /\ currentIndex = 0
  /\ Len(youtubeQueue) = 2

(* C9: Next at the last index (or on an empty queue) clears the playing    *)
(* flag and keeps index and queue; otherwise it adds one to the index and  *)
(* playback is playing.                                                    *)
C9_Advance ==
  [][lastOp'.op = "next" =>
       /\ youtubeQueue' = youtubeQueue
       /\ IF currentIndex + 1 < Len(youtubeQueue)
          THEN currentIndex' = currentIndex + 1 /\ isYoutubePlaying'
          ELSE currentIndex' = currentIndex /\ ~isYoutubePlaying']_vars

C9_Witness ==
  /\ lastOp.op = "next"
  /\ Len(youtubeQueue) = 2
  /\ currentIndex = 1
  /\ ~isYoutubePlaying

(* C10: an enqueue that lengthens the queue adds one to videos_added and   *)
(* raises max_queue_size to the larger of its value and the new length, in *)
(* memory and in the store.                                                *)
C10_EnqueueTracked ==
  [][(lastOp'.op \in {"enqueue", "play"} /\ Len(youtubeQueue') = Len(youtubeQueue) + 1)
       => /\ stats'.videos_added = stats.videos_added + 1
          /\ stats'.max_queue_size =
               (IF stats.max_queue_size > Len(youtubeQueue')
                THEN stats.max_queue_size ELSE Len(youtubeQueue'))
          /\ StatsIn(storage') = stats']_vars

C12_RejectedEnqueue ==
  [][\A input \in UrlInputs :
       (~isValidYoutubeUrl(sanitizeString(input)) /\ AddToQueue(input))
       => /\ UNCHANGED <<youtubeQueue, currentIndex, isYoutubePlaying, youtubeUrl,
                         stats, unlockedAchievements, storage>>
          /\ pend' = NoPending
          /\ urlError' = (IF input = NoText THEN urlError ELSE URL_ERROR)]_vars

C12_Witness ==
  /\ lastOp.op = "enqueue" /\ lastOp.data = "text"
  /\ urlError = URL_ERROR
  /\ Len(youtubeQueue) = 1
  /\ isYoutubePlaying

(* C12 as stated: every locator that fails the validation, the empty one   *)
(* included, sets the error message.                                       *)
C12_EveryRejectionReported ==
  [][\A input \in UrlInputs :
       (~isValidYoutubeUrl(sanitizeString(input)) /\ AddToQueue(input))
       => /\ UNCHANGED <<youtubeQueue, currentIndex, isYoutubePlaying, stats>>
          /\ urlError' = URL_ERROR]_vars

StoredUnlocked == UnlockedIn(storage)

(* C13: whenever no update is waiting to be rendered, the stats and the    *)
(* unlocked set a load would read from the store are those in memory; and  *)
(* the load at mount queues exactly what the store holds.                  *)
C13_StoreMatchesMemory ==
  /\ []((mounted /\ Quiescent) =>
          (StoredStats = stats /\ StoredUnlocked = unlockedAchievements))
  /\ [][lastOp'.op = "mount" =>
          /\ pend'.stats[1] = SetUpdate(StoredStats)
          /\ pend'.unlocked = <<StoredUnlocked>>]_vars

C13_Witness ==
  /\ mounted /\ Quiescent
  /\ loads = 2
  /\ stats.watch_time > 0
  /\ unlockedAchievements # <<>>
  /\ StoredStats = stats /\ StoredUnlocked = unlockedAchievements

Ids(seq) == {seq[i] : i \in 1..Len(seq)}

(* C14: no step removes an id from the unlocked set, in memory (while the  *)
(* page stays mounted) or in the store, whatever the stats become.         *)
C14_UnlockedNeverShrinks ==
  [][ /\ (mounted /\ mounted') =>
            Ids(unlockedAchievements) \subseteq Ids(unlockedAchievements')
      /\ Ids(UnlockedIn(storage)) \subseteq Ids(UnlockedIn(storage')) ]_vars

C14_Witness ==
  /\ mounted /\ Quiescent
  /\ loads = 2
  /\ stats.watch_time = 3599
  /\ Has(unlockedAchievements, 4)
  /\ Has(StoredUnlocked, 4)

(* The counter an achievement type reads, and the ids whose target a stat  *)
(* mapping meets.                                                          *)
CounterOf(type, s) ==
  IF type = "discord_connection" THEN s.discord_connections
  ELSE IF type = "videos_added" THEN s.videos_added
  ELSE IF type = "messages_sent" THEN s.messages_sent
  ELSE IF type = "watch_time" THEN s.watch_time
  ELSE s.max_queue_size

MetIds(s) ==
  {ACHIEVEMENT_DEFINITIONS[i].id : i \in
     {j \in 1..Len(ACHIEVEMENT_DEFINITIONS) :
        CounterOf(ACHIEVEMENT_DEFINITIONS[j].type, s) >=
           ACHIEVEMENT_DEFINITIONS[j].target}}

(* C15: a render that evaluates its stats queues, when anything is new,    *)
(* exactly the ids already unlocked together with the ids whose counter is *)
(* at or above the target; and once nothing is left to render every id     *)
(* whose target the stats meet is unlocked.                                *)
C15_UnlockedIffMet ==
  /\ []((mounted /\ Quiescent) => MetIds(stats) \subseteq Ids(unlockedAchievements))
  /\ [][(lastOp'.op \in {"render", "saveStats"} /\ pend'.unlocked # <<>>)
          => Ids(pend'.unlocked[1]) = Ids(unlockedAchievements') \cup MetIds(stats')]_vars

C15_Witness ==
  /\ mounted /\ Quiescent
  /\ stats.max_queue_size = 5 /\ stats.watch_time = 3600
  /\ stats.discord_connections = 1 /\ stats.videos_added = 10
  /\ Ids(unlockedAchievements) = {1, 2, 4, 5}
  /\ stats.messages_sent = 49

(* The array of ids as the store holds it. *)
RawUnlockedIn(store) ==
  ValueOf(safeLocalStorageGet(store, UNLOCKED_KEY, Typed("array", <<>>), "unlocked"))

NoDuplicates(seq) ==
  \A i, j \in 1..Len(seq) : seq[i] = seq[j] => i = j

(* C16: evaluating a stat mapping a second time adds nothing to the result *)
(* of the first; an id appears once in the unlocked set, in memory and in  *)
(* the store; and the store's set is written only when an id is new.       *)
C16_EvaluationIdempotent ==
  /\ [](\A S \in StatInputs :
          LET once == UnlockFrom(1, unlockedAchievements, S)
          IN  UnlockFrom(1, once, S) = once)
  /\ [](NoDuplicates(unlockedAchievements) /\ NoDuplicates(RawUnlockedIn(storage)))
  /\ [][storage'[UNLOCKED_KEY] # storage[UNLOCKED_KEY]
          => /\ Ids(UnlockedIn(storage)) \subseteq Ids(UnlockedIn(storage'))
             /\ Ids(UnlockedIn(storage)) # Ids(UnlockedIn(storage'))]_vars

C16_Witness ==
  /\ mounted /\ Quiescent
  /\ lastOp.op = "render"
  /\ stats.watch_time = 3600
  /\ Has(unlockedAchievements, 4)
  /\ Has(RawUnlockedIn(storage), 4)

Dominates(S, T) ==
  /\ S.discord_connections >= T.discord_connections
  /\ S.videos_added >= T.videos_added
  /\ S.messages_sent >= T.messages_sent
  /\ S.watch_time >= T.watch_time
  /\ S.max_queue_size >= T.max_queue_size
  /\ S.sessions_played >= T.sessions_played

(* C17: from the same unlocked set, a stat mapping that is at least        *)
(* another in every counter unlocks at least the ids the other unlocks.    *)
C17_EvaluationMonotone ==
  \A U \in {<<>>, unlockedAchievements} : \A T \in StatInputs :
     /\ Dominates(stats, T) =>
          Ids(UnlockFrom(1, U, T)) \subseteq Ids(UnlockFrom(1, U, stats))
     /\ Dominates(T, stats) =>
          Ids(UnlockFrom(1, U, stats)) \subseteq Ids(UnlockFrom(1, U, T))

C17_Witness ==
  /\ mounted /\ Quiescent
  /\ \A T \in StatInputs : Dominates(stats, T)
  /\ Ids(unlockedAchievements) = {1, 2, 3, 4, 5}
  /\ \E T \in StatInputs : Ids(UnlockFrom(1, <<>>, T)) = {}

NonNegative(s) ==
  /\ s.discord_connections >= 0 /\ s.videos_added >= 0 /\ s.messages_sent >= 0
  /\ s.watch_time >= 0 /\ s.max_queue_size >= 0 /\ s.sessions_played >= 0

(* C18: every counter of the stats in memory is at least 0, whatever the   *)
(* store held when the page loaded, and so is every counter that the store *)
(* holds once the updates are rendered.                                    *)
C18_CountersNonNegative ==
  mounted => /\ NonNegative(stats)
             /\ Quiescent => NonNegative(StoredStats)

KnownIds == {ACHIEVEMENT_DEFINITIONS[i].id : i \in 1..Len(ACHIEVEMENT_DEFINITIONS)}

(* C19: every unlocked id, in memory and in the store, is the id of an     *)
(* achievement definition; an id enters the store only in a step whose     *)
(* stats meet its target, and enters the memory only from the store or     *)
(* together with its write to the store.                                   *)
C19_UnlockedIdsEarned ==
  /\ [](Ids(unlockedAchievements) \subseteq KnownIds
        /\ Ids(UnlockedIn(storage)) \subseteq KnownIds)
  /\ [][ /\ (Ids(UnlockedIn(storage')) \ Ids(UnlockedIn(storage)))
               \subseteq MetIds(stats')
         /\ mounted' =>
              (Ids(unlockedAchievements') \ Ids(unlockedAchievements))
                 \subseteq Ids(UnlockedIn(storage)) ]_vars

C19_Witness ==
  /\ mounted /\ Quiescent
  /\ loads = 2
  /\ lastOp.op = "render"
  /\ Ids(unlockedAchievements) = {2, 4}
  /\ stats.videos_added = 9 /\ stats.watch_time = 3599

(* JSON-representable values: numbers, strings, null, a boolean, arrays    *)
(* and objects, the falsy ones among them.                                 *)
RoundTripValues ==
  { Typed("number", 0), Typed("number", 1000), Typed("number", -5),
    Typed("string", <<>>), Typed("string", <<"1", "0", "0", "0">>),
    NullValue, Typed("boolean", FALSE),
    Typed("array", <<>>), Typed("array", <<1, 4>>),
    Typed("object", InitialStats), Typed("object", stats) }

Validators == {"stats", "unlocked", "watchSession", "volume", "none"}

RoundTripDefaults ==
  {NullValue, Typed("array", <<>>), Typed("object", InitialStats),
   Typed("number", VolumeSteps)}

(* C20: safeLocalStorageGet after safeLocalStorageSet of a value the       *)
(* validator accepts returns that value, for every key, every default and  *)
(* whatever the key held before.                                           *)
C20_StoreRoundTrip ==
  \A key \in StorageKeys, tv \in RoundTripValues, validator \in Validators,
     defaultValue \in RoundTripDefaults :
       Validate(validator, tv) =>
         safeLocalStorageGet(
            safeLocalStorageSet(storage, key, TypeOf(tv), ValueOf(tv)),
            key, defaultValue, validator) = tv

C20_Witness ==
  /\ mounted /\ Quiescent
  /\ loads = 2
  /\ stats \in StatInputs
  /\ storage[STATS_KEY] = <<JsonStringify("object", stats)>>
  /\ safeLocalStorageGet(storage, STATS_KEY, Typed("object", InitialStats), "stats")
       = Typed("object", stats)

(* What JSON.parse makes of a stored text that it accepts. *)
ParsedItem(item) == Typed(item[1][2], item[1][3])

Unparsable(item) == item # NoItem /\ item[1][1] # "json"

(* C21: safeLocalStorageGet gives the default when the store cannot be     *)
(* read, when the key is absent, when the stored text is no JSON and when  *)
(* the validator rejects the parsed value; what it gives is the default or *)
(* a value the validator accepts.                                          *)
C21_DefaultOnFailure ==
  \A key \in StorageKeys, validator \in Validators,
     defaultValue \in RoundTripDefaults :
       LET got == safeLocalStorageGet(storage, key, defaultValue, validator)
           item == storage[key]
       IN  /\ (\/ storeMode = "unavailable"
                \/ item = NoItem
                \/ Unparsable(item)
                \/ ~Validate(validator, ParsedItem(item))) => got = defaultValue
           /\ got # defaultValue => Validate(validator, got)

C21_Witness ==
  /\ mounted /\ Quiescent
  /\ lastOp.op = "render"
  /\ storeMode = "ok"
  /\ Unparsable(storage[STATS_KEY])
  /\ ~Validate("volume", ParsedItem(storage[VOLUME_KEY]))
  /\ stats = InitialStats
  /\ volume = VolumeSteps

(* C22: while the store refuses writes no step changes what a key holds    *)
(* (but for the removal of the session marker, which is no write), and the *)
(* operations still change the memory: a volume change sets the clamped    *)
(* volume, an enqueue lengthens the queue and updates the stats, opening a *)
(* session queues its start, a tick queues its update, and the next render *)
(* applies what was queued.                                                *)
C22_FailedWriteIsNoOp ==
  [][storeMode # "ok" =>
       /\ \A k \in StorageKeys :
             \/ storage'[k] = storage[k]
             \/ k = WATCH_SESSION_KEY /\ storeMode = "full" /\ storage'[k] = NoItem
       /\ \A value \in SliderTexts :
             VolumeChange(value) => volume' = validateNumber(value, 0, VolumeSteps)
       /\ \A input \in UrlInputs :
             (isValidYoutubeUrl(sanitizeString(input)) /\ AddToQueue(input)) =>
                /\ youtubeQueue' = Append(youtubeQueue, sanitizeString(input))
                /\ IF Len(youtubeQueue') > stats.max_queue_size
                   THEN stats' = [stats EXCEPT !.max_queue_size = Len(youtubeQueue')]
                   ELSE stats' = [stats EXCEPT !.videos_added = @ + 1]
       /\ lastOp'.start = "opened" =>
             (pend'.wss = <<now>> /\ watchSessionStartTimeRef' = now)
       /\ (lastOp'.op = "tick" /\ sessionDuration(watchSessionStart) > 0) =>
             pend'.stats # pend.stats
       /\ lastOp'.op = "render" =>
             /\ stats' = FoldStats(stats, pend.stats, storage).s
             /\ watchSessionStart' = Latest(pend.wss, watchSessionStart)
             /\ volume' = Latest(pend.volume, volume)]_vars

C22_Witness ==
  /\ mounted /\ Quiescent
  /\ storeMode = "full"
  /\ storage = SavedStorage
  /\ stats.watch_time = SavedStats.watch_time + 1
  /\ stats.max_queue_size = 1
  /\ volume = 50
  /\ watchSessionStart # Null

(* Ranges [min, max] in volume steps, the volume's own among them. *)
Ranges == {<<0, VolumeSteps>>, <<25, 50>>, <<0 - 50, 0>>}

(* The number a text stands for, read off the text by hand; NoText and     *)
(* "abc" stand for none.                                                   *)
Numeric ==
  { <<<<"0", ".", "5">>, 50>>, <<<<"1", ".", "5">>, 150>>, <<<<"-", "3">>, 0 - 300>>,
    <<<<"0">>, 0>>, <<<<" ", ".", "2", "5", "x">>, 25>> }

VolumeStored(store) ==
  store[VOLUME_KEY] # NoItem /\ store[VOLUME_KEY] # CorruptStorage[VOLUME_KEY]

(* C23: validateNumber gives min for a text that is no number and the      *)
(* number clamped into [min, max] otherwise ("1.5" in [0, 1] gives 1,      *)
(* "abc" gives 0); the volume in memory, every queued volume and every     *)
(* volume the page wrote to the store lie in [0, 1].                       *)
C23_VolumeClamped ==
  /\ \A r \in Ranges :
       /\ \A text \in VolumeTexts \ {n[1] : n \in Numeric} :
             validateNumber(text, r[1], r[2]) = r[1]
       /\ \A n \in Numeric :
             validateNumber(n[1], r[1], r[2]) =
               (IF n[2] < r[1] THEN r[1] ELSE IF n[2] > r[2] THEN r[2] ELSE n[2])
  /\ validateNumber(<<"1", ".", "5">>, 0, VolumeSteps) = VolumeSteps
  /\ validateNumber(<<"a", "b", "c">>, 0, VolumeSteps) = 0
  /\ volume >= 0 /\ volume <= VolumeSteps
  /\ \A i \in 1..Len(pend.volume) :
        pend.volume[i] >= 0 /\ pend.volume[i] <= VolumeSteps
  /\ VolumeStored(storage) => VolumeValidator(ParsedItem(storage[VOLUME_KEY]))

C23_Witness ==
  /\ mounted /\ Quiescent
  /\ loads = 2
  /\ storeMode = "ok"
  /\ lastOp.op = "render"
  /\ volume = 0
  /\ storage[VOLUME_KEY] = <<JsonStringify("number", 0)>>

(* Queue, index and playing flag once the renders after a handler are done. *)
Controller(r) == [queue |-> r.queue, index |-> r.index, playing |-> r.playing]

(* C24: in every state of the page with nothing left to render, the ended  *)
(* event of the player (from either allowed origin) and Next lead, once    *)
(* their renders are done, to the same queue, index and playing flag.      *)
C24_EndedIsAdvance ==
  (mounted /\ Quiescent) =>
     \A i \in 1..Len(ALLOWED_ORIGINS) :
        Controller(Settle(Here, handleMessage(HandlerEnv, ALLOWED_ORIGINS[i], EndedData)))
          = Controller(Settle(Here, handleNext(HandlerEnv)))

C24_Witness ==
  /\ lastOp.op = "message" /\ lastOp.data = "ended"
  /\ Has(ALLOWED_ORIGINS, lastOp.origin)
  /\ ~isYoutubePlaying
  /\ currentIndex = 0 /\ Len(youtubeQueue) = 2
  /\ pend.index = <<1>> /\ pend.playing = <<>>
  /\ Controller(Settle(Here, Env(storage, pend, watchSessionStartTimeRef)))
       = [queue |-> youtubeQueue, index |-> 1, playing |-> TRUE]

(* C25: Previous with currentIndex above 0 lowers it by one and keeps the  *)
(* queue; with currentIndex 0 or -1 it changes nothing of the queue, the   *)
(* index and the playing flag and queues no update.                        *)
C25_Retreat ==
  [][lastOp'.op = "previous" =>
       IF currentIndex > 0
       THEN currentIndex' = currentIndex - 1 /\ youtubeQueue' = youtubeQueue
       ELSE /\ UNCHANGED <<youtubeQueue, currentIndex, isYoutubePlaying, youtubeUrl>>
            /\ pend' = NoPending]_vars

C25_Witness ==
  /\ lastOp.op = "previous"
  /\ currentIndex = 0
  /\ Len(youtubeQueue) = 2
  /\ pend.url = <<youtubeQueue[1]>>
  /\ youtubeUrl = youtubeQueue[2]

(* C26: selecting a history entry whose locator is in the queue makes      *)
(* currentIndex the first offset of that locator and keeps the queue;      *)
(* otherwise the locator is appended and currentIndex is the new last      *)
(* offset; in both cases the playing flag is set, no queued update clears  *)
(* it, and it is set once the renders are done.                            *)
C26_SelectFromHistory ==
  /\ []((mounted /\ Quiescent) =>
          \A i \in 1..Len(youtubeHistory) :
             Settle(Here, playFromHistory(HandlerEnv, youtubeHistory[i])).playing)
  /\ [][\A i \in 1..Len(youtubeHistory) :
          PlayFromHistory(i) =>
            LET src == youtubeHistory[i]
            IN  /\ IF \E j \in 1..Len(youtubeQueue) : youtubeQueue[j] = src
                   THEN /\ youtubeQueue' = youtubeQueue
                        /\ youtubeQueue[currentIndex' + 1] = src
                        /\ \A j \in 1..currentIndex' : youtubeQueue[j] # src
                   ELSE /\ youtubeQueue' = Append(youtubeQueue, src)
                        /\ currentIndex' = Len(youtubeQueue') - 1
                /\ isYoutubePlaying'
                /\ \A k \in 1..Len(pend'.playing) : pend'.playing[k]]_vars

C26_Witness ==
  /\ lastOp.op = "history"
  /\ loads = 1
  /\ stats.videos_added = 0
  /\ youtubeQueue = <<UrlB>>
  /\ currentIndex = 0
  /\ isYoutubePlaying

(* C27: while the page keeps playing the same locator with a session open, *)
(* no tick, no render and no stats update changes the session start, the   *)
(* marker in the store or sessions_played.                                 *)
C27_SessionStaysOpen ==
  [][(/\ mounted /\ mounted'
      /\ isYoutubePlaying /\ isYoutubePlaying'
      /\ youtubeUrl # NoText /\ youtubeUrl' = youtubeUrl
      /\ watchSessionStart # Null
      /\ pend.playing = <<>> /\ pend.url = <<>> /\ pend.index = <<>>
      /\ pend.queue = <<>>)
       => /\ watchSessionStart' = watchSessionStart
          /\ storage'[WATCH_SESSION_KEY] = storage[WATCH_SESSION_KEY]
          /\ stats'.sessions_played = stats.sessions_played]_vars

(* C28: no tick is lost to another writer of the stats: whenever nothing   *)
(* is left to render in a playback period or after it, watch_time is its   *)
(* value at the start of the period plus one per tick of the period, in    *)
(* memory and in the store.                                                *)
C28_NoLostUpdate ==
  (mounted /\ Quiescent /\ session.started) =>
     /\ stats.watch_time = session.wt
     /\ StatsStored => StoredStats.watch_time = session.wt

(* C29: a load with the three identity parameters leaves, in the store and *)
(* as the last stats update it queues, the stats the store held with       *)
(* discord_connections one higher and every other counter as it was.       *)
C29_IdentityLoadKeepsCounters ==
  [][(lastOp'.op = "mount" /\ lastOp'.data = "identity") =>
       LET expected == [StatsIn(storage) EXCEPT !.discord_connections = @ + 1]
       IN  /\ StatsIn(storage') = expected
           /\ pend'.stats[Len(pend'.stats)] = SetUpdate(expected)]_vars

(* C30: enqueuing a valid locator on a queue that is not empty appends it  *)
(* as the last entry and, once the renders are done, currentIndex and the  *)
(* playing flag are what they were.                                        *)
C30_EnqueueOnNonEmpty ==
  (mounted /\ Quiescent /\ youtubeQueue # <<>>) =>
     \A input \in UrlInputs :
        isValidYoutubeUrl(sanitizeString(input)) =>
          LET r == Settle(Here, addToQueue(HandlerEnv, input, youtubeQueue, stats))
          IN  /\ r.queue = Append(youtubeQueue, sanitizeString(input))
              /\ r.index = currentIndex
              /\ r.playing = isYoutubePlaying

(* C31: a chat update whose index is at or past the end of the queue it    *)
(* leaves is corrected: once its renders are done, currentIndex is -1 or   *)
(* an offset into the queue.                                               *)
C31_ChatIndexCorrected ==
  (mounted /\ Quiescent) =>
     \A u \in ChatUpdates :
        LET r == Settle(Here, onVideoStateChange(HandlerEnv, u))
        IN  u.index >= Len(r.queue) =>
              \/ r.index = -1
              \/ r.index >= 0 /\ r.index < Len(r.queue)

(* C32: after a chat update whose playbackState is pause or stop, the      *)
(* playing flag is false once its renders are done, also when the update   *)
(* replaces the queue or changes the index.                                *)
C32_ChatPauseStops ==
  (mounted /\ Quiescent) =>
     \A u \in ChatUpdates :
        u.playbackState \in {"pause", "stop"} =>
          ~Settle(Here, onVideoStateChange(HandlerEnv, u)).playing

(* C33: once the renders are done, no watch session is open while playback *)
(* is not playing, and a watch session is open while playback is playing   *)
(* with a locator selected.                                                *)
C33_SessionIffPlaying ==
  (mounted /\ Quiescent) =>
     /\ ~isYoutubePlaying => watchSessionStart = Null
     /\ (isYoutubePlaying /\ youtubeUrl # NoText) => watchSessionStart # Null

(* C34: with a store that takes writes, once the renders are done the      *)
(* session marker is in the store exactly when a watch session is open,    *)
(* and it then holds the start of that session; a call that opens a        *)
(* session writes the marker in the same step and a call that closes one   *)
(* removes it in the same step, whatever the duration of the session.      *)
C34_MarkerIffSession ==
  /\ [](mounted /\ Quiescent /\ storeMode = "ok" =>
          /\ MarkerStored <=> watchSessionStart # Null
          /\ MarkerStored =>
                storage[WATCH_SESSION_KEY] =
                  <<JsonStringify("string", NumberToString(watchSessionStart))>>)
  /\ [][(mounted /\ mounted' /\ pend'.wss # <<>> /\ pend'.wss # pend.wss) =>
          (Latest(pend'.wss, Null) # Null <=> MarkerStored')]_vars

(* A session that was opened and closed within the same second: the marker *)
(* is gone and no session is open.                                         *)
C34_Witness ==
  /\ mounted /\ Quiescent /\ lastOp.op = "render"
  /\ loads = 1 /\ now = TICK_MS
  /\ youtubeUrl # NoText /\ ~isYoutubePlaying
  /\ watchSessionStart = Null /\ ~MarkerStored
  /\ stats.sessions_played = 0

(* C35: a window message from an allowed origin whose data is not a        *)
(* string, is not JSON, parses to something that is not an object, or is   *)
(* not an onStateChange event with info 0 changes nothing of the queue,    *)
(* the index and the playing flag, queues no update and lets no error out  *)
(* of the handler.                                                         *)
C35_MalformedMessageDropped ==
  [][(lastOp'.op = "message" /\ Has(ALLOWED_ORIGINS, lastOp'.origin)
        /\ lastOp'.data # EndedData.name)
       => /\ UNCHANGED <<youtubeQueue, currentIndex, isYoutubePlaying, youtubeUrl,
                         pend, storage, stats>>
          /\ ~lastOp'.threw]_vars

(* A playing event from the player arrives while an entry of the queue is  *)
(* followed by another one.                                                *)
C35_Witness ==
  /\ lastOp.op = "message"
  /\ Has(ALLOWED_ORIGINS, lastOp.origin)
  /\ lastOp.data = PlayingData.name
  /\ currentIndex >= 0 /\ currentIndex + 1 < Len(youtubeQueue)
  /\ isYoutubePlaying

(* C36: while the locator has a player, every step that changes the        *)
(* locator, the playing flag or the volume ends with a setVolume command   *)
(* carrying the integer from 0 to 100 nearest to volume x 100, followed by *)
(* playVideo when the playing flag is set and by pauseVideo otherwise; and *)
(* the last play, pause or stop command posted is playVideo exactly when   *)
(* the playing flag is set.                                                *)
C36_PlayerFollowsState ==
  /\ [][(/\ mounted /\ mounted' /\ IframeFor(youtubeUrl')
          /\ \/ youtubeUrl' # youtubeUrl
             \/ isYoutubePlaying' # isYoutubePlaying
             \/ volume' # volume)
         => LET sent == lastOp'.sent
                n    == Len(sent)
            IN  /\ n >= 2
                /\ sent[n - 1].func = "setVolume"
                /\ \E pct \in 0..100 :
                      /\ sent[n - 1].args = <<pct>>
                      /\ 2 * (pct * VolumeSteps - volume' * 100) <= VolumeSteps
                      /\ 2 * (volume' * 100 - pct * VolumeSteps) <= VolumeSteps
                /\ sent[n] = Cmd(IF isYoutubePlaying' THEN "playVideo"
                                 ELSE "pauseVideo", <<>>)]_vars
  /\ []((mounted /\ IframeFor(youtubeUrl)) =>
          (isYoutubePlaying <=> player = "playVideo"))

(* The slider is moved to the middle while the video is paused. *)
C36_Witness ==
  /\ lastOp.op = "volume"
  /\ IframeFor(youtubeUrl) /\ ~isYoutubePlaying
  /\ volume = 50
  /\ lastOp.sent = <<Cmd("setVolume", <<50>>), Cmd("pauseVideo", <<>>)>>
  /\ player = "pauseVideo"

(* C37: the history holds no locator twice; once the renders are done the  *)
(* current locator, when it has a video id, is in the history; and no step *)
(* of a page removes or changes an entry: the history before the step is a *)
(* prefix of the history after it.                                         *)
C37_HistoryOncePerLocator ==
  /\ [](\A i, j \in 1..Len(youtubeHistory) :
          youtubeHistory[i] = youtubeHistory[j] => i = j)
  /\ []((mounted /\ Quiescent /\ IframeFor(youtubeUrl)) =>
          Has(youtubeHistory, youtubeUrl))
  /\ [][(mounted /\ mounted') =>
          /\ Len(youtubeHistory) <= Len(youtubeHistory')
          /\ SubSeq(youtubeHistory', 1, Len(youtubeHistory)) = youtubeHistory]_vars

(* The first entry of a history of two is made the current locator again.  *)
C37_Witness ==
  /\ mounted /\ Quiescent
  /\ Len(youtubeHistory) = 2
  /\ youtubeUrl = youtubeHistory[1]
  /\ lastOp.op = "render"

(* C38: under the local operations (enqueue, Next, Previous, a history     *)
(* click, play, pause, stop, the ended events of the player) the queue     *)
(* only grows at its end: the queue before a step of a page is a prefix of *)
(* the queue after it.                                                     *)
C38_QueueAppendOnly ==
  [][(mounted /\ mounted') =>
       /\ Len(youtubeQueue) <= Len(youtubeQueue')
       /\ SubSeq(youtubeQueue', 1, Len(youtubeQueue)) = youtubeQueue]_vars

(* A second, different locator was enqueued behind the first. *)
C38_Witness ==
  /\ mounted
  /\ lastOp.op = "enqueue"
  /\ Len(youtubeQueue) = 2
  /\ youtubeQueue[1] # youtubeQueue[2]
  /\ currentIndex = 0

====
